---- MODULE Spec2Model ----
(***************************************************************************)
(* Model of the notebook QKE.ipynb: quantum kernel estimation through the  *)
(* all-zero bitstring of an N-qubit circuit and through measurements of a  *)
(* single control qubit.                                                    *)
(*                                                                          *)
(* The notebook's code cells are the actions, run in document order; a     *)
(* Python exception stops the run.  Real numbers are exact: a parameter    *)
(* is an integer number of hundredths, a complex number is a record        *)
(* [re, im] of integers, a quotient is a record [num, den].  The simulator *)
(* (execute(...).result().get_counts()) is the only source of              *)
(* nondeterminism: it may return any counts mapping whose tallies are      *)
(* positive and sum to the shot count.                                      *)
(***************************************************************************)
EXTENDS Integers, Sequences, FiniteSets, TLC

VARIABLES
    pc,              \* the next code cell to run, "done" or "error"
    err,             \* the exception that stopped the run, or "none"
    defined,         \* the global names assigned so far
    parameters,      \* global parameters (hundredths), cell at lines 148-151
    QKE,             \* global QKE, the all-zero-bitstring circuit
    num_shots,       \* global num_shots
    counts,          \* global counts of the QKE run
    prob_all_zeros,  \* global prob_all_zeros, a quotient [num, den]
    qc,              \* global qc, the circuit drawn at lines 251-259
    X, Y,            \* the X-basis and Y-basis test circuits
    X_counts, Y_counts,
    X0, X1, Y0, Y1,
    amplitude,       \* [num |-> complex, den |-> integer]
    kij,             \* [num, den]
    \* one shot of a test circuit, followed per basis value of the control qubit
    shot,            \* the circuit being run
    ip,              \* index of the next operation of shot
    ctrl,            \* basis value of qubit 0
    c,               \* basis value of qubit 0 right after the first operation
    acted,           \* indices of the operations that acted on the data qubits
    cbit,            \* the classical bit, -1 while not written
    \* what the estimates were computed from
    hist,            \* built, ran, est: QKE was built from, prob_all_zeros was
                     \* computed from, circuit() read the current parameters;
                     \* executed: the circuit prob_all_zeros was computed from
    \* a call of encoding_to_gate and the use of its gates on a register
    call,            \* the arguments N, parameters, controlled
    feature_gate,    \* the gate returned last
    applied,         \* the gates applied to the register so far
    reg,             \* the operator applied to the target qubits so far
    gctrl            \* basis value of the control qubit of the register

vars == <<pc, err, defined, parameters, QKE, num_shots, counts, prob_all_zeros,
          qc, X, Y, X_counts, Y_counts, X0, X1, Y0, Y1, amplitude, kij,
          shot, ip, ctrl, c, acted, cbit, hist, call, feature_gate, applied,
          reg, gctrl>>

nbvars == <<pc, err, defined, parameters, QKE, num_shots, counts,
            prob_all_zeros, qc, X, Y, X_counts, Y_counts, X0, X1, Y0, Y1,
            amplitude, kij, hist>>

gatevars == <<call, feature_gate, applied, reg, gctrl>>

resultvars == <<defined, parameters, QKE, num_shots, counts, prob_all_zeros,
                qc, X, Y, X_counts, Y_counts, X0, X1, Y0, Y1, amplitude, kij,
                hist>>

shotvars == <<shot, ip, ctrl, c, acted, cbit>>

----------------------------------------------------------------------------
\* Bounds and constants

\* N = 2
N == 2

\* the largest shot count tried for num_shots (4096 in the notebook)
MaxShots == 3

\* values np.random.uniform may draw, in thousandths
RawVals == {114, 321, 996}

\* the largest qubit count and the most gates applied when encoding_to_gate
\* is exercised on its own
MaxQubits == 3
MaxGates == 2

----------------------------------------------------------------------------
\* Python helpers

\* range(n) = 0, 1, ..., n-1
range(n) == [i \in 1..n |-> i - 1]

\* round(p, 2): thousandths to hundredths
round2(p) == (p + 5) \div 10

\* a[lo:hi] for a list a (0-based, hi exclusive, clipped to the list)
Slice(a, lo, hi) ==
    LET h == IF hi > Len(a) THEN Len(a) ELSE hi
    IN  IF lo >= h THEN <<>> ELSE SubSeq(a, lo + 1, h)

\* '0'*n
RECURSIVE Zeros(_)
Zeros(n) == IF n <= 0 THEN "" ELSE "0" \o Zeros(n - 1)

\* the bitstrings of n classical bits
RECURSIVE BitStrings(_)
BitStrings(n) ==
    IF n <= 0 THEN {""}
    ELSE {b \o s : b \in {"0", "1"}, s \in BitStrings(n - 1)}

\* complex arithmetic
Cx(r, i) == [re |-> r, im |-> i]
J == Cx(0, 1)
CAdd(a, b) == Cx(a.re + b.re, a.im + b.im)
CSub(a, b) == Cx(a.re - b.re, a.im - b.im)
CMul(a, b) == Cx(a.re * b.re - a.im * b.im, a.re * b.im + a.im * b.re)
\* abs(z)**2
Abs2(z) == z.re * z.re + z.im * z.im

\* dict.get(k): None is modelled as -1 (a tally is never negative)
None == 0 - 1
Get(d, k) == IF k \in DOMAIN d THEN d[k] ELSE None

EmptyCounts == [k \in {} |-> 0]

----------------------------------------------------------------------------
\* Gates and circuits

\* a library gate on one qubit, a barrier or a measurement
StdGate(name) ==
    [name |-> name, num_qubits |-> 1, controlled |-> FALSE, inverse |-> FALSE,
     bound |-> <<>>, label |-> <<>>, raised |-> "none"]

\* encoding_to_gate whose controlled branch builds the forward map whatever
\* the inverse flag
encoding_to_gateControlledForward(n, params, controlled, inverse) ==
    [name       |-> IF controlled THEN "c-unitary" ELSE "unitary",
     num_qubits |-> IF controlled THEN n + 1 ELSE n,
     controlled |-> controlled,
     inverse    |-> IF controlled THEN FALSE ELSE inverse,
     bound      |-> params,
     label      |-> <<Slice(params, 0, n), IF inverse THEN ".dg" ELSE "">>,
     raised     |-> IF Len(params) = n THEN "none" ELSE "ValueError"]

\* encoding_to_gate(N, parameters, controlled=False, inverse=False)
encoding_to_gate(n, params, controlled, inverse) ==
    LET \* gate_label(inverse): the first n parameters, ".dg" when inverse
        gate_label == <<Slice(params, 0, n), IF inverse THEN ".dg" ELSE "">>
        \* bind_parameters(parameters) needs one value per parameter of the map
        raised == IF Len(params) = n THEN "none" ELSE "ValueError"
    IN  [name       |-> IF controlled THEN "c-unitary" ELSE "unitary",
         num_qubits |-> IF controlled THEN n + 1 ELSE n,
         controlled |-> controlled,
         inverse    |-> inverse,
         bound      |-> params,
         label      |-> gate_label,
         raised     |-> raised]

\* QuantumCircuit(nq, nc)
QuantumCircuit(nq, nc) == [qubits |-> nq, clbits |-> nc, ops |-> <<>>]

\* circ.append(gate, qargs) and the one-qubit methods
append(circ, gate, qargs) ==
    [circ EXCEPT !.ops = Append(@, [gate |-> gate, qargs |-> qargs, cargs |-> <<>>])]
h(circ, q) == append(circ, StdGate("h"), <<q>>)
x(circ, q) == append(circ, StdGate("x"), <<q>>)
sdg(circ, q) == append(circ, StdGate("sdg"), <<q>>)
measure(circ, q, cb) ==
    [circ EXCEPT !.ops = Append(@, [gate |-> StdGate("measure"), qargs |-> <<q>>,
                                     cargs |-> <<cb>>])]

\* circ.measure_all(): a new classical register of one bit per qubit, a
\* barrier, and qubit i measured into bit i
RECURSIVE MeasureFrom(_, _)
MeasureFrom(circ, i) ==
    IF i >= circ.qubits THEN circ ELSE MeasureFrom(measure(circ, i, i), i + 1)
measure_all(circ) ==
    LET withBits == [circ EXCEPT !.clbits = @ + circ.qubits]
        barred == [withBits EXCEPT !.ops =
                      Append(@, [gate |-> [StdGate("barrier") EXCEPT !.num_qubits = circ.qubits],
                                 qargs |-> range(circ.qubits), cargs |-> <<>>])]
    IN  MeasureFrom(barred, 0)

\* an exception raised while the circuit was built
Raised(circ) ==
    IF \E i \in 1..Len(circ.ops) : circ.ops[i].gate.raised # "none"
    THEN "ValueError" ELSE "none"

----------------------------------------------------------------------------
\* The feature map and the operator of a gate.  An operator is kept as the
\* sequence of elementary gates it is the product of; an angle is kept as
\* the parameters it is computed from, with its sign.

\* an elementary gate; angle <<s, a, b>> is s*2*a when b = None and
\* s*2*(pi - a)*(pi - b) otherwise
EGate(name, qargs, s, a, b) == [name |-> name, qargs |-> qargs, angle |-> <<s, a, b>>]

\* ZZFeatureMap(feature_dimension=n, reps=1, entanglement='linear') bound to
\* vals: H and P(2*x[i]) on every qubit, then CX, P(2*(pi-x[i])*(pi-x[i+1])), CX
\* on every pair of neighbours
ZZFeatureMap(n, vals) ==
    LET hs == [i \in 1..n |-> EGate("h", <<i - 1>>, 0, 0, 0)]
        ps == [i \in 1..n |-> EGate("p", <<i - 1>>, 1, vals[i], 0 - 1)]
        zz == [k \in 1..(3 * (n - 1)) |->
                 LET i == ((k - 1) \div 3) + 1
                 IN  IF (k - 1) % 3 = 1
                     THEN EGate("p", <<i>>, 1, vals[i], vals[i + 1])
                     ELSE EGate("cx", <<i - 1, i>>, 0, 0, 0)]
    IN  hs \o ps \o zz

\* the inverse of an elementary gate: H and CX are their own inverses, P(t)
\* has inverse P(-t)
InverseGate(g) == [g EXCEPT !.angle[1] = 0 - @]

\* the inverse that negates the angles but keeps the order of the gates
inverseKeepsOrder(ops) == [k \in 1..Len(ops) |-> InverseGate(ops[k])]

\* QuantumCircuit.inverse(): the inverted gates in reverse order
inverse(ops) == [k \in 1..Len(ops) |-> InverseGate(ops[Len(ops) + 1 - k])]

\* encoding with .inverse() left out of the inverse branch
encodingNeverInverted(n, params, inv) ==
    IF Len(params) # n THEN <<>> ELSE ZZFeatureMap(n, params)

\* encoding(inverse) of encoding_to_gate: the bound feature map, inverted
\* when inverse == True (nothing is built when bind_parameters raises)
encoding(n, params, inv) ==
    IF Len(params) # n THEN <<>>
    ELSE IF inv = TRUE THEN inverse(ZZFeatureMap(n, params))
    ELSE ZZFeatureMap(n, params)

\* the product of two operators, first u then v: a gate directly followed by
\* its inverse cancels
RECURSIVE Then(_, _)
Then(u, v) ==
    IF v = <<>> THEN u
    ELSE IF u # <<>> /\ u[Len(u)] = InverseGate(v[1])
         THEN Then(SubSeq(u, 1, Len(u) - 1), Tail(v))
         ELSE Then(Append(u, v[1]), Tail(v))

\* Operator(encoding(inverse)) of a gate built by encoding_to_gate
Unitary(gate) ==
    encoding(IF gate.controlled THEN gate.num_qubits - 1 ELSE gate.num_qubits,
             gate.bound, gate.inverse)

\* circuit with the S-dagger appended after the final H instead of before it
circuitSdgLate(measure_Y) ==
    LET q0 == QuantumCircuit(N + 1, 1)
        q1 == h(q0, 0)
        q2 == append(q1, encoding_to_gate(N, Slice(parameters, 0, N), TRUE, FALSE), range(N + 1))
        q3 == x(q2, 0)
        q4 == append(q3, encoding_to_gate(N, Slice(parameters, N, 2 * N), TRUE, FALSE), range(N + 1))
        q5 == x(q4, 0)
        q6 == h(q5, 0)
        q7 == IF measure_Y = TRUE THEN sdg(q6, 0) ELSE q6
    IN  measure(q7, 0, 0)

\* circuit with the two data points' gates in each other's place
circuitSwappedPoints(measure_Y) ==
    LET q0 == QuantumCircuit(N + 1, 1)
        q1 == h(q0, 0)
        q2 == append(q1, encoding_to_gate(N, Slice(parameters, N, 2 * N), TRUE, FALSE), range(N + 1))
        q3 == x(q2, 0)
        q4 == append(q3, encoding_to_gate(N, Slice(parameters, 0, N), TRUE, FALSE), range(N + 1))
        q5 == x(q4, 0)
        q6 == IF measure_Y = TRUE THEN sdg(q5, 0) ELSE q5
        q7 == h(q6, 0)
    IN  measure(q7, 0, 0)

\* circuit with inverse=True passed for the second data point's gate
circuitInverse(measure_Y) ==
    LET q0 == QuantumCircuit(N + 1, 1)
        q1 == h(q0, 0)
        q2 == append(q1, encoding_to_gate(N, Slice(parameters, 0, N), TRUE, FALSE), range(N + 1))
        q3 == x(q2, 0)
        q4 == append(q3, encoding_to_gate(N, Slice(parameters, N, 2 * N), TRUE, TRUE), range(N + 1))
        q5 == x(q4, 0)
        q6 == IF measure_Y = TRUE THEN sdg(q5, 0) ELSE q5
        q7 == h(q6, 0)
    IN  measure(q7, 0, 0)

\* circuit without the X between the two controlled gates
circuitNoFlip(measure_Y) ==
    LET q0 == QuantumCircuit(N + 1, 1)
        q1 == h(q0, 0)
        q2 == append(q1, encoding_to_gate(N, Slice(parameters, 0, N), TRUE, FALSE), range(N + 1))
        q4 == append(q2, encoding_to_gate(N, Slice(parameters, N, 2 * N), TRUE, FALSE), range(N + 1))
        q5 == x(q4, 0)
        q5b == x(q5, 0)
        q6 == IF measure_Y = TRUE THEN sdg(q5b, 0) ELSE q5b
        q7 == h(q6, 0)
    IN  measure(q7, 0, 0)

\* def circuit(measure_Y=False), reading the globals N and parameters
circuit(measure_Y) ==
    LET q0 == QuantumCircuit(N + 1, 1)
        q1 == h(q0, 0)
        q2 == append(q1, encoding_to_gate(N, Slice(parameters, 0, N), TRUE, FALSE), range(N + 1))
        q3 == x(q2, 0)
        q4 == append(q3, encoding_to_gate(N, Slice(parameters, N, 2 * N), TRUE, FALSE), range(N + 1))
        q5 == x(q4, 0)
        q6 == IF measure_Y = TRUE THEN sdg(q5, 0) ELSE q5
        q7 == h(q6, 0)
    IN  measure(q7, 0, 0)

----------------------------------------------------------------------------
\* The simulator

\* every function from a set of outcomes to positive tallies
RECURSIVE Total(_)
Total(d) ==
    IF DOMAIN d = {} THEN 0
    ELSE LET k == CHOOSE k \in DOMAIN d : TRUE
         IN  d[k] + Total([j \in DOMAIN d \ {k} |-> d[j]])

\* The state of a circuit that measures qubit 0 only: a set of terms
\* [cv, r, a], the basis value cv of qubit 0, the operator r applied to the
\* data qubits and the amplitude a (a Gaussian integer, not normalised).
Amp(T, cv, r) ==
    IF \E t \in T : t.cv = cv /\ t.r = r
    THEN (CHOOSE t \in T : t.cv = cv /\ t.r = r).a
    ELSE Cx(0, 0)

\* H on qubit 0: amplitudes of equal data states add up or cancel
HadamardTerms(T) ==
    LET all == {[cv |-> v, r |-> t.r,
                 a |-> IF v = 0 THEN CAdd(Amp(T, 0, t.r), Amp(T, 1, t.r))
                       ELSE CSub(Amp(T, 0, t.r), Amp(T, 1, t.r))] :
                v \in {0, 1}, t \in T}
    IN  {t \in all : t.a # Cx(0, 0)}

StepTerms(T, op) ==
    IF op.gate.name = "h" THEN HadamardTerms(T)
    ELSE IF op.gate.name = "x" THEN {[t EXCEPT !.cv = 1 - @] : t \in T}
    ELSE IF op.gate.name = "sdg"
         THEN {IF t.cv = 1 THEN [t EXCEPT !.a = CMul(@, Cx(0, 0 - 1))] ELSE t : t \in T}
    ELSE IF op.gate.name = "c-unitary"
         THEN {IF t.cv = 1 THEN [t EXCEPT !.r = Then(@, Unitary(op.gate))] ELSE t : t \in T}
    ELSE T

RECURSIVE RunTerms(_, _, _)
RunTerms(T, ops, i) ==
    IF i > Len(ops) THEN T ELSE RunTerms(StepTerms(T, ops[i]), ops, i + 1)

\* the operator a circuit of plain gates applies to all its qubits
RECURSIVE RunPlain(_, _, _)
RunPlain(r, ops, i) ==
    IF i > Len(ops) THEN r
    ELSE RunPlain(IF ops[i].gate.name = "unitary" THEN Then(r, Unitary(ops[i].gate)) ELSE r,
                  ops, i + 1)

\* the outcomes one shot can give.  A circuit whose gates multiply to the
\* identity leaves all qubits in 0; a control qubit ends in the basis values
\* that keep a non-zero amplitude.  Any other state of the data qubits is
\* not evaluated: every outcome is taken as possible.
Outcomes(circ) ==
    IF \E i \in 1..Len(circ.ops) : circ.ops[i].gate.name = "unitary"
    THEN IF RunPlain(<<>>, circ.ops, 1) = <<>>
         THEN {Zeros(circ.clbits)} ELSE BitStrings(circ.clbits)
    ELSE IF circ.clbits = 1
         THEN {IF t.cv = 0 THEN "0" ELSE "1" :
               t \in RunTerms({[cv |-> 0, r |-> <<>>, a |-> Cx(1, 0)]}, circ.ops, 1)}
         ELSE BitStrings(circ.clbits)

\* execute(circ, backend, shots).result().get_counts(): the outcomes that
\* occurred, each with its positive tally; the tallies sum to shots
Execute(circ, shots) ==
    UNION { {d \in [S -> 1..shots] : Total(d) = shots} :
            S \in SUBSET Outcomes(circ) }

----------------------------------------------------------------------------
\* Estimation

\* the tally read without the default for a missing outcome
TallyNoDefault(d, k) == Get(d, k)

\* X_counts.get('0') if X_counts.get('0') != None else 0
Tally(d, k) == IF Get(d, k) # None THEN Get(d, k) ELSE 0

\* the numerator with the X-basis and Y-basis tallies in each other's place
AmplitudeNumMixed(x0, x1, y0, y1) ==
    CSub(CAdd(Cx(y0, 0), CMul(J, Cx(x0, 0))),
         CAdd(Cx(y1, 0), CMul(J, Cx(x1, 0))))

\* the numerator with the 1j*Y1 term left out
AmplitudeNumNoY1(x0, x1, y0, y1) ==
    CSub(CAdd(Cx(x0, 0), CMul(J, Cx(y0, 0))), Cx(x1, 0))

\* ((X0+1j*Y0)-(X1+1j*Y1))/num_shots, before the division
AmplitudeNum(x0, x1, y0, y1) ==
    CSub(CAdd(Cx(x0, 0), CMul(J, Cx(y0, 0))),
         CAdd(Cx(x1, 0), CMul(J, Cx(y1, 0))))

\* the squared magnitude divided by the shot count only once
KijDenNotSquared(amp) == [num |-> Abs2(amp.num), den |-> amp.den]

\* abs(amplitude)**2
Kij(amp) == [num |-> Abs2(amp.num), den |-> amp.den * amp.den]

----------------------------------------------------------------------------
\* The notebook

NoCircuit == QuantumCircuit(0, 0)
NoQuot == [num |-> 0, den |-> 1]
NoAmp == [num |-> Cx(0, 0), den |-> 1]
NoGate == StdGate("none")
NoCall == [n |-> 0, params |-> <<>>, controlled |-> FALSE, inverse |-> FALSE]
NoHist == [built |-> FALSE, ran |-> FALSE, est |-> FALSE, executed |-> NoCircuit]

ShotIdle ==
    /\ shot = NoCircuit /\ ip = 0 /\ ctrl = 0 /\ c = 0
    /\ acted = <<>> /\ cbit = None

GateIdle ==
    /\ call = NoCall /\ feature_gate = NoGate /\ applied = <<>> /\ reg = <<>> /\ gctrl = 0

\* the estimation cell has not run
NotEstimated ==
    /\ X = NoCircuit /\ Y = NoCircuit
    /\ X_counts = EmptyCounts /\ Y_counts = EmptyCounts
    /\ X0 = 0 /\ X1 = 0 /\ Y0 = 0 /\ Y1 = 0
    /\ amplitude = NoAmp
    /\ kij = NoQuot

\* nothing but the parameters assigned yet
Unassigned ==
    /\ err = "none"
    /\ QKE = NoCircuit
    /\ num_shots = 0
    /\ counts = EmptyCounts
    /\ prob_all_zeros = NoQuot
    /\ qc = NoCircuit
    /\ NotEstimated
    /\ hist = NoHist

Init ==
    /\ pc = "parameters"
    /\ defined = {}
    /\ parameters = <<>>
    /\ Unassigned
    /\ ShotIdle
    /\ GateIdle

\* the parameter vectors drawn with size=N instead of size=2*N
ParamVectorsOfN ==
    {[i \in 1..N |-> round2(raw[i])] : raw \in [1..N -> RawVals]}

\* lines 149-150: the vectors [round(p,2) for p in np.random.uniform(size=2*N)]
ParamVectors ==
    {[i \in 1..(2 * N) |-> round2(raw[i])] : raw \in [1..(2 * N) -> RawVals]}

\* lines 148-151: N = 2; parameters = [round(p,2) for p in uniform(size=2*N)],
\* drawn from the vectors S
DoParameters(S) ==
    /\ parameters' \in S
    /\ defined' = defined \cup {"N", "parameters"}
    /\ err' = "none"
    /\ hist' = [hist EXCEPT !.built = FALSE, !.ran = FALSE, !.est = FALSE]
    /\ UNCHANGED <<QKE, num_shots, counts, prob_all_zeros, qc, X, Y,
                   X_counts, Y_counts, X0, X1, Y0, Y1, amplitude, kij>>
    /\ UNCHANGED <<shotvars, gatevars>>

CellParameters ==
    /\ pc = "parameters"
    /\ DoParameters(ParamVectors)
    /\ pc' = "QKE"

\* the circuit of lines 183-186 with inverse=True left out
BuildQKEForward ==
    LET q0 == QuantumCircuit(N, 0)
        q1 == append(q0, encoding_to_gate(N, Slice(parameters, 0, N), FALSE, FALSE), range(N))
        q2 == append(q1, encoding_to_gate(N, Slice(parameters, N, 2 * N), FALSE, FALSE), range(N))
    IN  measure_all(q2)

\* the circuit built at lines 183-186
BuildQKE ==
    LET q0 == QuantumCircuit(N, 0)
        q1 == append(q0, encoding_to_gate(N, Slice(parameters, 0, N), FALSE, FALSE), range(N))
        q2 == append(q1, encoding_to_gate(N, Slice(parameters, N, 2 * N), FALSE, TRUE), range(N))
    IN  measure_all(q2)

\* lines 183-187
DoQKE ==
    /\ QKE' = BuildQKE
    /\ defined' = defined \cup {"QKE"}
    /\ err' = Raised(BuildQKE)
    /\ hist' = [hist EXCEPT !.built = TRUE]
    /\ UNCHANGED <<parameters, num_shots, counts, prob_all_zeros, qc, X, Y,
                   X_counts, Y_counts, X0, X1, Y0, Y1, amplitude, kij>>
    /\ UNCHANGED <<shotvars, gatevars>>

CellQKE ==
    /\ pc = "QKE"
    /\ DoQKE
    /\ pc' = IF err' = "none" THEN "run" ELSE "error"

\* lines 213-219: num_shots is a literal of the cell, the same on every run;
\* counts['0'*N] raises KeyError when the key is missing
DoRun(S) ==
    /\ \E s \in (IF "num_shots" \in defined THEN {num_shots} ELSE S) :
          /\ num_shots' = s
          /\ \E d \in Execute(QKE, s) :
                /\ counts' = d
                /\ IF Zeros(N) \in DOMAIN d
                   THEN /\ prob_all_zeros' = [num |-> d[Zeros(N)], den |-> s]
                        /\ defined' = defined \cup {"backend", "num_shots", "counts",
                                                    "prob_all_zeros"}
                        /\ err' = "none"
                        /\ hist' = [hist EXCEPT !.ran = hist.built, !.executed = QKE]
                   ELSE /\ prob_all_zeros' = prob_all_zeros
                        /\ defined' = defined \cup {"backend", "num_shots", "counts"}
                        /\ err' = "KeyError"
                        /\ hist' = hist
    /\ UNCHANGED <<parameters, QKE, qc, X, Y, X_counts, Y_counts, X0, X1, Y0, Y1,
                   amplitude, kij>>
    /\ UNCHANGED <<shotvars, gatevars>>

CellRun ==
    /\ pc = "run"
    /\ DoRun(1..MaxShots)
    /\ pc' = IF err' = "none" THEN "qc" ELSE "error"

\* the circuit built at lines 251-258
BuildQc ==
    LET q0 == QuantumCircuit(N + 1, 1)
        q1 == h(q0, 0)
        q2 == append(q1, encoding_to_gate(N, Slice(parameters, 0, N), TRUE, FALSE), range(N + 1))
        q3 == x(q2, 0)
        q4 == append(q3, encoding_to_gate(N, Slice(parameters, N, 2 * N), TRUE, FALSE), range(N + 1))
        q5 == x(q4, 0)
        q6 == h(q5, 0)
    IN  measure(q6, 0, 0)

\* lines 251-259
DoQc ==
    /\ qc' = BuildQc
    /\ defined' = defined \cup {"qc"}
    /\ err' = Raised(BuildQc)
    /\ UNCHANGED <<parameters, QKE, num_shots, counts, prob_all_zeros, X, Y,
                   X_counts, Y_counts, X0, X1, Y0, Y1, amplitude, kij, hist>>
    /\ UNCHANGED <<shotvars, gatevars>>

CellQc ==
    /\ pc = "qc"
    /\ DoQc
    /\ pc' = IF err' = "none" THEN "circuit" ELSE "error"

\* lines 277-288: the cell that defines circuit
DoCircuitDef ==
    /\ defined' = defined \cup {"circuit"}
    /\ err' = "none"
    /\ UNCHANGED <<parameters, QKE, num_shots, counts, prob_all_zeros, qc, X, Y,
                   X_counts, Y_counts, X0, X1, Y0, Y1, amplitude, kij, hist>>
    /\ UNCHANGED <<shotvars, gatevars>>

CellCircuitDef ==
    /\ pc = "circuit"
    /\ DoCircuitDef
    /\ pc' = "estimate"

\* a division that never raises
ZeroDivisionNever(n) == FALSE

\* z / n raises ZeroDivisionError when n is 0
ZeroDivision(n) == n = 0

\* lines 314-329
DoEstimate ==
    /\ X' = circuit(FALSE)
    /\ Y' = circuit(TRUE)
    /\ hist' = [hist EXCEPT !.est = TRUE]
    /\ \E dx \in Execute(circuit(FALSE), num_shots),
          dy \in Execute(circuit(TRUE), num_shots) :
          /\ X_counts' = dx
          /\ Y_counts' = dy
          /\ X0' = Tally(dx, "0")
          /\ X1' = Tally(dx, "1")
          /\ Y0' = Tally(dy, "0")
          /\ Y1' = Tally(dy, "1")
          /\ IF ~ZeroDivision(num_shots)
             THEN /\ amplitude' = [num |-> AmplitudeNum(Tally(dx, "0"), Tally(dx, "1"),
                                                        Tally(dy, "0"), Tally(dy, "1")),
                                   den |-> num_shots]
                  /\ kij' = Kij(amplitude')
                  /\ defined' = defined \cup {"X", "Y", "result", "X_counts",
                                  "Y_counts", "X0", "X1", "Y0", "Y1", "amplitude", "kij"}
                  /\ err' = "none"
             ELSE /\ UNCHANGED <<amplitude, kij>>
                  /\ defined' = defined \cup {"X", "Y", "result", "X_counts",
                                  "Y_counts", "X0", "X1", "Y0", "Y1"}
                  /\ err' = "ZeroDivisionError"
    /\ UNCHANGED <<parameters, QKE, num_shots, counts, prob_all_zeros, qc>>
    /\ UNCHANGED <<shotvars, gatevars>>

CellEstimate ==
    /\ pc = "estimate"
    /\ DoEstimate
    /\ pc' = IF err' = "none" THEN "done" ELSE "error"

Next ==
    \/ CellParameters
    \/ CellQKE
    \/ CellRun
    \/ CellQc
    \/ CellCircuitDef
    \/ CellEstimate

Spec == Init /\ [][Next]_vars

----------------------------------------------------------------------------
\* One shot of a test circuit, per basis value of the control qubit.
\* Qubit 0 starts in 0.  H leaves qubit 0 in a superposition of both basis
\* values, each of which is followed; X flips the value; Sdg is diagonal and
\* keeps it; a gate on data qubits acts on them unless it is controlled by a
\* qubit 0 holding 0; the measurement copies the value into the classical bit.

InitShot ==
    /\ pc = "shot"
    /\ defined = {"N", "parameters", "circuit"}
    /\ parameters \in ParamVectors
    /\ Unassigned
    /\ \E measure_Y \in BOOLEAN : shot = circuit(measure_Y)
    /\ ip = 1 /\ ctrl = 0 /\ c = None /\ acted = <<>> /\ cbit = None
    /\ GateIdle

\* the operation about to run
Op == shot.ops[ip]
OnControlOnly == Op.qargs = <<0>>

\* qc.h(0), lines 279 and 286
ShotH ==
    /\ ip <= Len(shot.ops) /\ OnControlOnly /\ Op.gate.name = "h"
    /\ \E v \in {0, 1} : /\ ctrl' = v
                          /\ c' = IF ip = 1 THEN v ELSE c
    /\ ip' = ip + 1
    /\ UNCHANGED <<shot, acted, cbit>>
    /\ UNCHANGED <<nbvars, gatevars>>

\* qc.x(0), lines 281 and 283
ShotX ==
    /\ ip <= Len(shot.ops) /\ OnControlOnly /\ Op.gate.name = "x"
    /\ ctrl' = 1 - ctrl
    /\ ip' = ip + 1
    /\ UNCHANGED <<shot, c, acted, cbit>>
    /\ UNCHANGED <<nbvars, gatevars>>

\* qc.sdg(0), line 285
ShotSdg ==
    /\ ip <= Len(shot.ops) /\ OnControlOnly /\ Op.gate.name = "sdg"
    /\ ip' = ip + 1
    /\ UNCHANGED <<shot, ctrl, c, acted, cbit>>
    /\ UNCHANGED <<nbvars, gatevars>>

\* qc.append(<gate>, range(N+1)), lines 280 and 282: a gate on data qubits
ShotData ==
    /\ ip <= Len(shot.ops)
    /\ \E i \in 1..Len(Op.qargs) : Op.qargs[i] > 0
    /\ acted' = IF Op.gate.controlled /\ Op.qargs[1] = 0 /\ ctrl = 0
                THEN acted ELSE Append(acted, ip)
    /\ ip' = ip + 1
    /\ UNCHANGED <<shot, ctrl, c, cbit>>
    /\ UNCHANGED <<nbvars, gatevars>>

\* qc.measure(0, 0), line 287
ShotMeasure ==
    /\ ip <= Len(shot.ops) /\ OnControlOnly /\ Op.gate.name = "measure"
    /\ cbit' = ctrl
    /\ ip' = ip + 1
    /\ UNCHANGED <<shot, ctrl, c, acted>>
    /\ UNCHANGED <<nbvars, gatevars>>

NextShot ==
    \/ ShotH
    \/ ShotX
    \/ ShotSdg
    \/ ShotData
    \/ ShotMeasure

SpecShot == InitShot /\ [][NextShot]_vars

----------------------------------------------------------------------------
\* The cells run by hand, in any order and any number of times.  A cell runs
\* only when the names it reads are defined (otherwise it raises NameError
\* and assigns nothing); an exception ends the cell, not the session.  The
\* cells before line 148 (imports, encoding_to_gate) have run.

\* the parameter vectors tried in this specification: all entries but the
\* last are the smallest value
FewVectors ==
    {v \in ParamVectors :
        /\ \A i \in 1..(2 * N - 1) : \A w \in ParamVectors : v[i] <= w[i]
        /\ v[2 * N] < 50}

\* the shot counts tried in this specification
AnyShots == 1..(MaxShots - 1)

InitAnyOrder ==
    /\ pc = "interactive"
    /\ defined = {"encoding_to_gate"}
    /\ parameters = <<>>
    /\ Unassigned
    /\ ShotIdle
    /\ GateIdle

\* lines 148-151
AnyParameters ==
    /\ pc = "interactive"
    /\ DoParameters(FewVectors)
    /\ pc' = pc

\* lines 183-187
AnyQKE ==
    /\ pc = "interactive"
    /\ {"N", "parameters", "encoding_to_gate"} \subseteq defined
    /\ DoQKE
    /\ pc' = pc

\* lines 213-219
AnyRun ==
    /\ pc = "interactive"
    /\ {"N", "QKE"} \subseteq defined
    /\ DoRun(AnyShots)
    /\ pc' = pc

\* lines 251-259
AnyQc ==
    /\ pc = "interactive"
    /\ {"N", "parameters", "encoding_to_gate"} \subseteq defined
    /\ DoQc
    /\ pc' = pc

\* lines 277-288
AnyCircuitDef ==
    /\ pc = "interactive"
    /\ DoCircuitDef
    /\ pc' = pc

\* lines 314-329
AnyEstimate ==
    /\ pc = "interactive"
    /\ {"circuit", "N", "parameters", "encoding_to_gate", "backend", "num_shots"}
          \subseteq defined
    /\ DoEstimate
    /\ pc' = pc

NextAnyOrder ==
    \/ AnyParameters
    \/ AnyQKE
    \/ AnyRun
    \/ AnyQc
    \/ AnyCircuitDef
    \/ AnyEstimate

SpecAnyOrder == InitAnyOrder /\ [][NextAnyOrder]_vars

----------------------------------------------------------------------------
\* The estimation cell for any shot count, zero included (the literal of
\* line 215 edited): the state the cells before it leave, then the cell.

InitEstimate ==
    /\ pc = "estimate"
    /\ err = "none"
    /\ parameters \in ParamVectors
    /\ QKE = BuildQKE
    /\ qc = BuildQc
    /\ num_shots \in 0..MaxShots
    /\ counts \in Execute(QKE, num_shots)
    /\ prob_all_zeros = (IF Zeros(N) \in DOMAIN counts
                         THEN [num |-> counts[Zeros(N)], den |-> num_shots] ELSE NoQuot)
    /\ defined = {"encoding_to_gate", "N", "parameters", "QKE", "backend",
                  "num_shots", "counts", "qc", "circuit"}
                    \cup (IF Zeros(N) \in DOMAIN counts THEN {"prob_all_zeros"} ELSE {})
    /\ hist = [built |-> TRUE, ran |-> Zeros(N) \in DOMAIN counts, est |-> FALSE,
               executed |-> IF Zeros(N) \in DOMAIN counts THEN QKE ELSE NoCircuit]
    /\ NotEstimated
    /\ ShotIdle
    /\ GateIdle

NextEstimate == CellEstimate

SpecEstimate == InitEstimate /\ [][NextEstimate]_vars

----------------------------------------------------------------------------
\* encoding_to_gate on its own (lines 93-120): one call site with its
\* arguments N, parameters and controlled, called with either inverse flag;
\* every gate it returns is applied to a register of one control qubit and N
\* target qubits.  ZZFeatureMap needs at least two qubits.

\* the parameter lists passed: N or N + 1 rounded values
GateVectors(n) ==
    UNION {{[i \in 1..len |-> round2(raw[i])] : raw \in [1..len -> RawVals]} :
             len \in n..(n + 1)}

\* the register: the basis value of the control qubit and the operator
\* applied so far to the state of the target qubits
Register(control, target) == [control |-> control, target |-> target]

\* a gate applied to the register: UnitaryGate(...).control(1) acts on the
\* targets when the control qubit is 1 and not at all when it is 0, an
\* uncontrolled gate acts on the targets
ApplyGate(gate, r) ==
    Register(r.control,
             IF gate.controlled /\ r.control = 0 THEN r.target
             ELSE Then(r.target, Unitary(gate)))

InitGate ==
    /\ pc = "call"
    /\ defined = {"encoding_to_gate"}
    /\ parameters = <<>>
    /\ Unassigned
    /\ ShotIdle
    /\ \E n \in 2..MaxQubits : \E v \in GateVectors(n) : \E cf \in BOOLEAN :
          call = [n |-> n, params |-> v, controlled |-> cf, inverse |-> FALSE]
    /\ gctrl \in {0, 1}
    /\ feature_gate = NoGate
    /\ applied = <<>>
    /\ reg = <<Register(gctrl, <<>>)>>

\* lines 93-120: feature_gate = encoding_to_gate(N, parameters, controlled, inverse)
GateCall(inv) ==
    /\ pc = "call"
    /\ call' = [call EXCEPT !.inverse = inv]
    /\ LET g == encoding_to_gate(call.n, call.params, call.controlled, inv)
       IN  IF g.raised = "none"
           THEN /\ feature_gate' = g
                /\ err' = "none"
                /\ pc' = "built"
           ELSE /\ feature_gate' = feature_gate
                /\ err' = g.raised
                /\ pc' = "error"
    /\ UNCHANGED <<applied, reg, gctrl>>
    /\ UNCHANGED <<resultvars, shotvars>>

\* circ.append(feature_gate, ...) as at lines 184-185 and 280-283, followed
\* on the register
GateApply ==
    /\ pc = "built"
    /\ Len(applied) < MaxGates
    /\ applied' = Append(applied, feature_gate)
    /\ reg' = Append(reg, ApplyGate(feature_gate, reg[Len(reg)]))
    /\ pc' = "call"
    /\ UNCHANGED <<call, feature_gate, gctrl, err>>
    /\ UNCHANGED <<resultvars, shotvars>>

NextGate ==
    \/ \E inv \in BOOLEAN : GateCall(inv)
    \/ GateApply

SpecGate == InitGate /\ [][NextGate]_vars

----------------------------------------------------------------------------
\* Properties

\* the two halves of the parameter vector
FirstPoint == [i \in 1..N |-> parameters[i]]
SecondPoint == [i \in 1..N |-> parameters[N + i]]

\* the number of times outcome k occurred according to a counts mapping
Occurrences(d, k) == IF k \in DOMAIN d THEN d[k] ELSE 0

\* a counts mapping of one classical bit with outcomes '0' and '1' exchanged
Flip(k) == IF k = "0" THEN "1" ELSE "0"
SwapOutcomes(d) == [k \in {Flip(j) : j \in DOMAIN d} |-> d[Flip(k)]]

\* the tallies are consistent with the shot count
Consistent ==
    /\ num_shots > 0
    /\ X0 >= 0 /\ X1 >= 0 /\ Y0 >= 0 /\ Y1 >= 0
    /\ X0 + X1 = num_shots
    /\ Y0 + Y1 = num_shots

\* C1 as stated: for counts consistent with num_shots > 0 the estimate kij
\* lies in [0,1], i.e. (X0 - X1)^2 + (Y0 - Y1)^2 <= num_shots^2.
C1_KijInUnitInterval ==
    (pc = "done" /\ Consistent) =>
        /\ 0 <= kij.num /\ kij.num <= kij.den
        /\ (X0 - X1) * (X0 - X1) + (Y0 - Y1) * (Y0 - Y1) <= num_shots * num_shots

\* C1 amended: for counts consistent with num_shots > 0 the estimate kij lies
\* in [0,2], i.e. (X0 - X1)^2 + (Y0 - Y1)^2 <= 2 * num_shots^2.
C1_KijAtMostTwo ==
    (pc = "done" /\ Consistent) =>
        /\ 0 <= kij.num /\ kij.num <= 2 * kij.den
        /\ kij.den > 0
        /\ (X0 - X1) * (X0 - X1) + (Y0 - Y1) * (Y0 - Y1) <= 2 * num_shots * num_shots

\* an estimate above 1 from consistent counts
C1_Witness == pc = "done" /\ Consistent /\ kij.num > kij.den /\ num_shots > 1

\* C2: amplitude = ((X0 + i*Y0) - (X1 + i*Y1)) / num_shots and kij is its
\* squared magnitude: kij * num_shots^2 = (X0 - X1)^2 + (Y0 - Y1)^2, the real
\* part coming from the X-basis counts only and the imaginary part from the
\* Y-basis counts only.
C2_KijFormula ==
    pc = "done" =>
        /\ amplitude.den = num_shots
        /\ amplitude.num.re = Occurrences(X_counts, "0") - Occurrences(X_counts, "1")
        /\ amplitude.num.im = Occurrences(Y_counts, "0") - Occurrences(Y_counts, "1")
        /\ kij.num * (num_shots * num_shots)
              = ((X0 - X1) * (X0 - X1) + (Y0 - Y1) * (Y0 - Y1)) * kij.den
        /\ kij.den # 0

\* an estimate from four non-zero tallies, different in the two bases
C2_Witness ==
    /\ pc = "done"
    /\ X0 > 0 /\ X1 > 0 /\ Y0 > 0 /\ Y1 > 0
    /\ X0 - X1 # Y0 - Y1

\* C3: with the X-basis tallies kept and the Y-basis tallies exchanged
\* (Y0 <-> Y1), the estimation gives the same kij.
C3_SwapInvariant ==
    pc = "done" =>
        LET sy == SwapOutcomes(Y_counts)
            swapped == Kij([num |-> AmplitudeNum(Tally(X_counts, "0"), Tally(X_counts, "1"),
                                                 Tally(sy, "0"), Tally(sy, "1")),
                            den |-> num_shots])
        IN  /\ Tally(sy, "0") = Y1 /\ Tally(sy, "1") = Y0
            /\ swapped.num * kij.den = kij.num * swapped.den

\* an estimate whose Y-basis tallies differ, so that the exchange changes them
C3_Witness == pc = "done" /\ Y0 # Y1 /\ Y0 > 0 /\ X0 # X1

\* C4: an outcome missing from the X-basis or Y-basis counts is tallied as 0,
\* a present one is used unchanged, and the estimate is produced without error.
C4_MissingIsZero ==
    ("X_counts" \in defined) =>
        /\ err = "none" /\ pc = "done" /\ "kij" \in defined
        /\ X0 = (IF "0" \in DOMAIN X_counts THEN X_counts["0"] ELSE 0)
        /\ X1 = (IF "1" \in DOMAIN X_counts THEN X_counts["1"] ELSE 0)
        /\ Y0 = (IF "0" \in DOMAIN Y_counts THEN Y_counts["0"] ELSE 0)
        /\ Y1 = (IF "1" \in DOMAIN Y_counts THEN Y_counts["1"] ELSE 0)

\* an estimate from counts that lack '0' in one basis and '1' in the other
C4_Witness ==
    /\ pc = "done" /\ "kij" \in defined
    /\ "0" \notin DOMAIN X_counts
    /\ "1" \notin DOMAIN Y_counts

\* C5: when the all-zero outcome is missing from counts, prob_all_zeros is 0
\* and no error is raised.
C5_MissingAllZeroIsZero ==
    ("counts" \in defined /\ Zeros(N) \notin DOMAIN counts) =>
        /\ err = "none"
        /\ "prob_all_zeros" \in defined
        /\ prob_all_zeros.num = 0

\* the encoding of the first point, the inverse encoding of the second point,
\* then the measurement of all N qubits
QKEOrder ==
    /\ QKE.qubits = N /\ QKE.clbits = N
    /\ Len(QKE.ops) = N + 3
    /\ QKE.ops[1].gate.name = "unitary" /\ QKE.ops[1].gate.bound = FirstPoint
    /\ QKE.ops[1].gate.inverse = FALSE /\ QKE.ops[1].qargs = [i \in 1..N |-> i - 1]
    /\ QKE.ops[2].gate.name = "unitary" /\ QKE.ops[2].gate.bound = SecondPoint
    /\ QKE.ops[2].gate.inverse = TRUE /\ QKE.ops[2].qargs = [i \in 1..N |-> i - 1]
    /\ QKE.ops[3].gate.name = "barrier"
    /\ \A i \in 1..N : /\ QKE.ops[3 + i].gate.name = "measure"
                       /\ QKE.ops[3 + i].qargs = <<i - 1>>
                       /\ QKE.ops[3 + i].cargs = <<i - 1>>

\* C6: the all-zero circuit is encoding, inverse encoding, measurement of all
\* qubits, and for every counts mapping summing to num_shots > 0 the estimate
\* is (count of the all-zero outcome) / num_shots, within [0,1].
C6_AllZeroEstimate ==
    ("counts" \in defined) =>
        /\ QKEOrder
        /\ "prob_all_zeros" \in defined
        /\ prob_all_zeros.num = Occurrences(counts, Zeros(N))
        /\ prob_all_zeros.den = num_shots
        /\ 0 <= prob_all_zeros.num /\ prob_all_zeros.num <= prob_all_zeros.den

\* C6 on the counts that contain the all-zero outcome
C6_WhenAllZeroOccurred ==
    ("counts" \in defined /\ Zeros(N) \in DOMAIN counts) =>
        /\ QKEOrder
        /\ "prob_all_zeros" \in defined
        /\ prob_all_zeros.num = counts[Zeros(N)]
        /\ prob_all_zeros.den = num_shots
        /\ 0 <= prob_all_zeros.num /\ prob_all_zeros.num <= prob_all_zeros.den

\* the operations of the test circuit, by name, in order
TestNames(measure_Y) ==
    IF measure_Y
    THEN <<"h", "c-unitary", "x", "c-unitary", "x", "sdg", "h", "measure">>
    ELSE <<"h", "c-unitary", "x", "c-unitary", "x", "h", "measure">>

TestOrder(circ, measure_Y) ==
    LET names == TestNames(measure_Y)
    IN  /\ circ.qubits = N + 1 /\ circ.clbits = 1
        /\ Len(circ.ops) = Len(names)
        /\ \A i \in 1..Len(names) :
              /\ circ.ops[i].gate.name = names[i]
              /\ circ.ops[i].qargs = (IF names[i] = "c-unitary"
                                      THEN [j \in 1..(N + 1) |-> j - 1] ELSE <<0>>)
              /\ circ.ops[i].cargs = (IF names[i] = "measure" THEN <<0>> ELSE <<>>)
        /\ circ.ops[2].gate.controlled /\ circ.ops[2].gate.bound = FirstPoint
        /\ circ.ops[4].gate.controlled /\ circ.ops[4].gate.bound = SecondPoint

\* C7: circuit(measure_Y) has N+1 qubits, 1 classical bit and the operations
\* H, controlled gate of the first point, X, controlled gate of the second
\* point, X, S-dagger only when measure_Y, H, measurement of qubit 0 into bit
\* 0, in this order; no data qubit is measured and the measurement is last.
C7_CircuitOrder ==
    pc = "done" =>
        /\ TestOrder(X, FALSE)
        /\ TestOrder(Y, TRUE)
        /\ \A circ \in {X, Y} : \A i \in 1..Len(circ.ops) :
              circ.ops[i].gate.name = "measure" =>
                 (i = Len(circ.ops) /\ circ.ops[i].qargs = <<0>>)

\* both test circuits built from two different data points
C7_Witness == pc = "done" /\ Len(X.ops) = 7 /\ Len(Y.ops) = 8 /\ FirstPoint # SecondPoint

\* the gate between the two X flips of a test circuit
BetweenFlips(circ) ==
    /\ Len(circ.ops) >= 5
    /\ circ.ops[3].gate.name = "x" /\ circ.ops[5].gate.name = "x"
    /\ circ.ops[4].gate.controlled
    /\ circ.ops[4].gate.bound = SecondPoint

\* C8 as stated: the controlled gate between the two X flips is built from
\* parameters[N:2N] with the inverse form requested.
C8_SecondGateInverse ==
    pc = "done" =>
        \A circ \in {X, Y} : BetweenFlips(circ) /\ circ.ops[4].gate.inverse = TRUE

\* C8 amended: the controlled gate between the two X flips is built from
\* parameters[N:2N] with controlled=True and the inverse form not requested.
C8_SecondGateForward ==
    pc = "done" =>
        \A circ \in {X, Y} :
            /\ BetweenFlips(circ)
            /\ circ.ops[4].gate.inverse = FALSE
            /\ circ.ops[4].gate.label = <<SecondPoint, "">>

\* test circuits whose two controlled gates are bound to different points
C8_Witness ==
    /\ pc = "done" /\ Len(X.ops) >= 5 /\ Len(Y.ops) >= 5
    /\ X.ops[2].gate.bound # X.ops[4].gate.bound

\* C9: in the branch where qubit 0 holds c after the initial H, the first
\* point's gate acts iff c = 1, the second point's gate iff c = 0, exactly one
\* of them acts, qubit 0 holds c again after the second X, and nothing else
\* touches the data qubits.
C9_OneGatePerBranch ==
    /\ shot.ops[2].gate.bound = FirstPoint
    /\ shot.ops[4].gate.bound = SecondPoint
    /\ \A i \in 1..Len(acted) : acted[i] \in {2, 4}
    /\ ip >= 3 => ((\E i \in 1..Len(acted) : acted[i] = 2) <=> c = 1)
    /\ ip >= 5 => ((\E i \in 1..Len(acted) : acted[i] = 4) <=> c = 0)
    /\ ip >= 5 => Len(acted) = 1
    /\ ip < 3 => acted = <<>>
    /\ ip = 6 => ctrl = c

\* the branch c = 0 after the second X: only the second point's gate acted
C9_Witness == pc = "shot" /\ ip = 6 /\ c = 0 /\ acted = <<4>> /\ ctrl = 0

\* Y.ops without its operation number k
Without(ops, k) == [i \in 1..(Len(ops) - 1) |-> IF i < k THEN ops[i] ELSE ops[i + 1]]

\* C10: circuit(True) equals circuit(False) except for one additional
\* S-dagger on qubit 0 immediately before the final H.
C10_OnlySdgDiffers ==
    pc = "done" =>
        LET k == Len(Y.ops) - 2
        IN  /\ X.qubits = Y.qubits /\ X.clbits = Y.clbits
            /\ Len(Y.ops) = Len(X.ops) + 1
            /\ Y.ops[k].gate.name = "sdg" /\ Y.ops[k].qargs = <<0>>
            /\ Y.ops[k + 1].gate.name = "h"
            /\ \A i \in (k + 2)..Len(Y.ops) : Y.ops[i].gate.name # "h"
            /\ Without(Y.ops, k) = X.ops
            /\ \A i \in 1..Len(X.ops) : X.ops[i].gate.name # "sdg"

\* both circuits built, the Y-basis one holding an S-dagger
C10_Witness ==
    /\ pc = "done"
    /\ \E i \in 1..Len(Y.ops) : Y.ops[i].gate.name = "sdg"
    /\ Len(X.ops) > 0

\* C14: for identical data points (parameters[0:N] = parameters[N:2N]) the
\* all-zero circuit is an encoding followed by its inverse, every shot gives
\* the all-zero outcome and prob_all_zeros is 1 for every num_shots > 0.
C14_IdenticalPointsGiveOne ==
    ("counts" \in defined /\ FirstPoint = SecondPoint) =>
        /\ err = "none"
        /\ "prob_all_zeros" \in defined
        /\ counts = [k \in {Zeros(N)} |-> num_shots]
        /\ num_shots > 0
        /\ prob_all_zeros.num = prob_all_zeros.den

\* the all-zero circuit run for two identical data points, several shots
C14_Witness ==
    /\ "prob_all_zeros" \in defined /\ FirstPoint = SecondPoint
    /\ num_shots > 1
    /\ QKE.ops[1].gate.bound = QKE.ops[2].gate.bound

\* C17: for identical data points the X-basis circuit gives outcome 0 on
\* every shot (X0 = num_shots, X1 = 0), so kij = 1 + ((Y0 - Y1)/num_shots)^2,
\* never below 1 and equal to 1 only when Y0 = Y1.
C17_IdenticalPointsAtLeastOne ==
    (pc = "done" /\ FirstPoint = SecondPoint) =>
        /\ X0 = num_shots /\ X1 = 0
        /\ kij.den = num_shots * num_shots
        /\ kij.num = kij.den + (Y0 - Y1) * (Y0 - Y1)
        /\ kij.num >= kij.den
        /\ (kij.num = kij.den) <=> (Y0 = Y1)

\* an estimate above 1 for two identical data points
C17_Witness ==
    /\ pc = "done" /\ FirstPoint = SecondPoint
    /\ Y0 # Y1 /\ Y0 > 0 /\ Y1 > 0
    /\ kij.num > kij.den

\* the two halves of the parameter vector and what is built from them
HalvesArePoints ==
    /\ Len(parameters) = 2 * N
    /\ Len(Slice(parameters, 0, N)) = N
    /\ Len(Slice(parameters, N, 2 * N)) = N
    /\ Slice(parameters, 0, N) \o Slice(parameters, N, 2 * N) = parameters
    /\ "QKE" \in defined =>
          /\ Len(QKE.ops) >= 2
          /\ QKE.ops[1].gate.bound = [i \in 1..N |-> parameters[i]]
          /\ QKE.ops[2].gate.bound = [i \in 1..N |-> parameters[N + i]]

\* C15 as stated: the vector has 2N entries, every rounded entry lies in
\* [0,1), and its halves are the two data points' feature vectors.
C15_EntriesBelowOne ==
    ("parameters" \in defined) =>
        /\ HalvesArePoints
        /\ \A i \in 1..Len(parameters) : 0 <= parameters[i] /\ parameters[i] < 100

\* C15 amended: the vector has 2N entries, every rounded entry lies in the
\* closed interval [0,1], and its halves are the two data points' vectors.
C15_EntriesAtMostOne ==
    ("parameters" \in defined) =>
        /\ HalvesArePoints
        /\ \A i \in 1..Len(parameters) : 0 <= parameters[i] /\ parameters[i] <= 100

\* a vector with an entry rounded up to 1.00, used to build QKE
C15_Witness ==
    /\ "QKE" \in defined
    /\ \E i \in 1..Len(parameters) : parameters[i] = 100
    /\ \E i \in 1..Len(parameters) : parameters[i] < 100

\* the vector the executed all-zero circuit was bound to, and the vector the
\* single-control-qubit circuits of the last estimation were bound to
ExecutedVector ==
    hist.executed.ops[1].gate.bound \o hist.executed.ops[2].gate.bound
EstimatedVector == X.ops[2].gate.bound \o X.ops[4].gate.bound

BothEstimates == "prob_all_zeros" \in defined /\ "kij" \in defined

C19_ZeroShotsNoEstimate ==
    /\ ("X_counts" \in defined /\ num_shots = 0) =>
          /\ X_counts = EmptyCounts /\ Y_counts = EmptyCounts
          /\ X0 = 0 /\ X1 = 0 /\ Y0 = 0 /\ Y1 = 0
          /\ err = "ZeroDivisionError"
          /\ "amplitude" \notin defined /\ "kij" \notin defined
          /\ kij = NoQuot
    /\ ("X_counts" \in defined /\ num_shots > 0
          /\ X0 = 0 /\ Y0 = 0 /\ X1 = num_shots /\ Y1 = num_shots) =>
          /\ err = "none"
          /\ "kij" \in defined
          /\ kij.den = num_shots * num_shots
          /\ kij.num = 2 * kij.den

\* the estimation cell executed with zero shots
C19_Witness ==
    /\ pc = "error"
    /\ "X_counts" \in defined /\ "Y_counts" \in defined
    /\ num_shots = 0
    /\ X = circuit(FALSE) /\ Y = circuit(TRUE)
    /\ err # "none"

\* the estimation cell executed with every shot giving outcome 1 in both bases
AllOnesEstimated ==
    /\ pc = "done"
    /\ num_shots > 1
    /\ X_counts = [k \in {"1"} |-> num_shots]
    /\ Y_counts = [k \in {"1"} |-> num_shots]
    /\ "kij" \in defined

\* a call of encoding_to_gate has returned or raised
Called == pc \in {"built", "error"}

\* the gate a call with the other inverse flag and the same arguments builds
OtherFlag ==
    encoding_to_gate(call.n, call.params, call.controlled, ~call.inverse)

\* C11: encoding_to_gate accepts any parameter vector of length >= N and
\* builds the gate bound to the first N values only: no error is raised and
\* the result is the gate built from the vector truncated to N entries.
C11_LongVectorAccepted ==
    (Called /\ Len(call.params) >= call.n) =>
        LET truncated == encoding_to_gate(call.n, Slice(call.params, 0, call.n),
                                          call.controlled, call.inverse)
        IN  /\ pc = "built"
            /\ err = "none"
            /\ feature_gate.label = truncated.label
            /\ Unitary(feature_gate) = Unitary(truncated)
            /\ Unitary(feature_gate) # <<>>

\* C12: the gate built with inverse=True is the inverse of the gate built
\* with inverse=False from the same arguments: applying one after the other,
\* in either order, leaves every state of the register unchanged.
C12_InverseFlagInverts ==
    /\ pc = "built" =>
          /\ feature_gate.inverse = call.inverse
          /\ OtherFlag.raised = "none"
          /\ Unitary(feature_gate) # <<>>
          /\ Unitary(feature_gate) # Unitary(OtherFlag)
          /\ Then(Unitary(feature_gate), Unitary(OtherFlag)) = <<>>
          /\ Then(Unitary(OtherFlag), Unitary(feature_gate)) = <<>>
    /\ \A k \in 1..(Len(applied) - 1) :
          (applied[k].inverse # applied[k + 1].inverse) =>
              reg[k + 2].target = reg[k].target

\* a gate and the gate of the other flag applied one after the other to the
\* target qubits, in each order
C12_Witness ==
    /\ Len(applied) >= 2
    /\ applied[1].inverse # applied[2].inverse
    /\ (~applied[1].controlled \/ gctrl = 1)
    /\ reg[2].target # <<>>
    /\ reg[3].target = <<>>
    /\ call.n = MaxQubits

\* C13: the controlled gate acts on 1 control plus N target qubits, leaves
\* the targets unchanged when the control qubit is 0, applies the gate of the
\* controlled=False construction with the same inverse flag when the control
\* qubit is 1, and never changes the control qubit.
C13_ControlledGate ==
    /\ (pc = "built" /\ call.controlled) =>
          LET base == encoding_to_gate(call.n, call.params, FALSE, call.inverse)
          IN  /\ feature_gate.controlled
              /\ feature_gate.num_qubits = 1 + call.n
              /\ base.num_qubits = call.n
              /\ Unitary(feature_gate) = Unitary(base)
              /\ ApplyGate(feature_gate, Register(0, <<>>)) = Register(0, <<>>)
              /\ ApplyGate(feature_gate, Register(1, <<>>)) = ApplyGate(base, Register(1, <<>>))
    /\ \A k \in 1..Len(applied) :
          applied[k].controlled =>
              /\ reg[k + 1].control = reg[k].control
              /\ reg[k].control = 0 => reg[k + 1].target = reg[k].target
              /\ reg[k].control = 1 =>
                    reg[k + 1].target =
                        Then(reg[k].target,
                             Unitary(encoding_to_gate(call.n, call.params, FALSE,
                                                      applied[k].inverse)))

\* a controlled inverse gate applied with the control qubit at 1 after
\* a controlled gate
C13_Witness ==
    /\ Len(applied) >= 2
    /\ applied[2].controlled /\ applied[2].inverse /\ applied[2].num_qubits = N + 1
    /\ gctrl = 1
    /\ reg[2].target # <<>>
    /\ reg[3].target # reg[2].target

\* a call with one value too many
LongVectorRaised ==
    /\ pc = "error"
    /\ Len(call.params) = call.n + 1
    /\ err = "ValueError"

====
